---- MODULE Spec2Model ----
(***************************************************************************)
(* Model of the sudoku solver of src/src/main.rs: candidate cells as bit   *)
(* sets, group propagation (cascade, cascade_over_sets) and the recursive  *)
(* search (try_solutions) as a machine with an explicit call stack.        *)
(***************************************************************************)
EXTENDS Integers, Sequences, FiniteSets, TLC

\* ------------------------------------------------------------------------
\* Program constants
\* ------------------------------------------------------------------------
\* width of every BitVec (BitVec::from_elem(9,false))
Width ==
  9

\* number of cells of the grid literal of main
Size ==
  81

Bits == 0..(Width - 1)
Cells == 0..(Size - 1)

\* ------------------------------------------------------------------------
\* SudokuElem for BitVec: a cell is the set of the indices of its true bits
\* ------------------------------------------------------------------------
is_solved(e) == Cardinality(e) = 1

elem_is_invalid(e) == e = {}

\* the true bits in increasing index order
RECURSIVE TrueBits(_, _)
TrueBits(e, i) ==
  IF i >= Width THEN <<>>
  ELSE IF i \in e THEN <<i>> \o TrueBits(e, i + 1)
  ELSE TrueBits(e, i + 1)

\* solutions that stops after the first true bit
solutions_First(e) ==
  LET bs == TrueBits(e, 0) IN [k \in 1..(IF Len(bs) > 0 THEN 1 ELSE 0) |-> {bs[k]}]

\* solutions in decreasing bit order
solutions_Reversed(e) ==
  LET bs == TrueBits(e, 0) IN [k \in 1..Len(bs) |-> {bs[Len(bs) + 1 - k]}]

\* one single-bit cell per true bit, in increasing bit order
solutions(e) ==
  LET bs == TrueBits(e, 0) IN [k \in 1..Len(bs) |-> {bs[k]}]

\* the digits i+1 of the true bits, in increasing order
elem_print(e) ==
  LET bs == TrueBits(e, 0) IN [k \in 1..Len(bs) |-> bs[k] + 1]

\* xor in the place of difference
difference_Xor(e, mask) ==
  [elem |-> (e \ mask) \cup (mask \ e),
   changed |-> ((e \ mask) \cup (mask \ e)) # e]

\* BitVec::difference: the new value and whether the value changed
difference(e, mask) == [elem |-> e \ mask, changed |-> (e \ mask) # e]

\* build_elem setting bit num instead of bit num-1
build_elem_OffByOne(num) == IF num = 0 THEN Bits ELSE {num}

build_elem(num) == IF num = 0 THEN Bits ELSE {num - 1}

\* ------------------------------------------------------------------------
\* Geometry built in main
\* ------------------------------------------------------------------------
row_size ==
  CHOOSE r \in 0..Size : r * r <= Size /\ (r + 1) * (r + 1) > Size

\* (from..to).step_by(step) as a sequence, to exclusive
RECURSIVE StepBy(_, _, _)
StepBy(from, to, step) ==
  IF from >= to THEN <<>> ELSE <<from>> \o StepBy(from + step, to, step)

\* the list of box corners with one corner mistyped (56 for 57)
BoxStarts_Typo == <<0, 3, 6, 27, 30, 33, 54, 56, 60>>

BoxStarts == <<0, 3, 6, 27, 30, 33, 54, 57, 60>>

BoxOffsets == <<0, 1, 2, 9, 10, 11, 18, 19, 20>>

unique_sets ==
  LET rowStarts == StepBy(0, Size, row_size)
      rows == [k \in 1..Len(rowStarts) |->
                 StepBy(rowStarts[k], rowStarts[k] + row_size, 1)]
      cols == [k \in 1..row_size |-> StepBy(k - 1, Size, row_size)]
      boxes == [k \in 1..Len(BoxStarts) |->
                 [j \in 1..Len(BoxOffsets) |-> BoxOffsets[j] + BoxStarts[k]]]
  IN rows \o cols \o boxes

\* ------------------------------------------------------------------------
\* Sudoku for Vec<BitVec>
\* ------------------------------------------------------------------------
\* the OR that leaves out the first cell of the group
solved_mask_SkipFirst(sudoku, idx) ==
  UNION {sudoku[idx[k]] : k \in {j \in 2..Len(idx) : is_solved(sudoku[idx[j]])}}

\* the OR of the solved cells of the group
solved_mask(sudoku, idx) ==
  UNION {sudoku[idx[k]] : k \in {j \in 1..Len(idx) : is_solved(sudoku[idx[j]])}}

\* the for loop without the clearing of a duplicate (e.clear() left out)
RECURSIVE PassLoop_NoClear(_, _, _, _, _, _)
PassLoop_NoClear(sudoku, idx, k, mask, set, changed) ==
  IF k > Len(idx) THEN [sudoku |-> sudoku, changed |-> changed]
  ELSE LET i == idx[k]
           e == sudoku[i]
           d == IF ~is_solved(e) THEN difference(e, mask)
                ELSE [elem |-> e, changed |-> FALSE]
           set2 == IF is_solved(d.elem) THEN set \cup {elem_print(d.elem)}
                   ELSE set
       IN PassLoop_NoClear([sudoku EXCEPT ![i] = d.elem], idx, k + 1, mask,
                           set2, changed \/ d.changed)

\* the for loop with the test of set.insert inverted: a solved cell is
\* cleared when its string was not yet in the set
RECURSIVE PassLoop_ClearFirst(_, _, _, _, _, _)
PassLoop_ClearFirst(sudoku, idx, k, mask, set, changed) ==
  IF k > Len(idx) THEN [sudoku |-> sudoku, changed |-> changed]
  ELSE LET i == idx[k]
           e == sudoku[i]
           d == IF ~is_solved(e) THEN difference(e, mask)
                ELSE [elem |-> e, changed |-> FALSE]
           dup == is_solved(d.elem) /\ elem_print(d.elem) \notin set
           e2 == IF dup THEN {} ELSE d.elem
           set2 == IF is_solved(d.elem) THEN set \cup {elem_print(d.elem)}
                   ELSE set
       IN PassLoop_ClearFirst([sudoku EXCEPT ![i] = e2], idx, k + 1, mask,
                              set2, changed \/ d.changed)

\* the for loop with changed assigned at every cell instead of set once:
\* changed = !e.is_solved() && e.difference(&solved_mask)
RECURSIVE PassLoop_LastFlag(_, _, _, _, _, _)
PassLoop_LastFlag(sudoku, idx, k, mask, set, changed) ==
  IF k > Len(idx) THEN [sudoku |-> sudoku, changed |-> changed]
  ELSE LET i == idx[k]
           e == sudoku[i]
           d == IF ~is_solved(e) THEN difference(e, mask)
                ELSE [elem |-> e, changed |-> FALSE]
           dup == is_solved(d.elem) /\ elem_print(d.elem) \in set
           e2 == IF dup THEN {} ELSE d.elem
           set2 == IF is_solved(d.elem) THEN set \cup {elem_print(d.elem)}
                   ELSE set
       IN PassLoop_LastFlag([sudoku EXCEPT ![i] = e2], idx, k + 1, mask,
                            set2, d.changed)

\* the for loop without the is_solved guard of difference: the solved mask
\* is subtracted from every cell
RECURSIVE PassLoop_MaskAll(_, _, _, _, _, _)
PassLoop_MaskAll(sudoku, idx, k, mask, set, changed) ==
  IF k > Len(idx) THEN [sudoku |-> sudoku, changed |-> changed]
  ELSE LET i == idx[k]
           e == sudoku[i]
           d == difference(e, mask)
           dup == is_solved(d.elem) /\ elem_print(d.elem) \in set
           e2 == IF dup THEN {} ELSE d.elem
           set2 == IF is_solved(d.elem) THEN set \cup {elem_print(d.elem)}
                   ELSE set
       IN PassLoop_MaskAll([sudoku EXCEPT ![i] = e2], idx, k + 1, mask, set2,
                           changed \/ d.changed)

\* the for loop noting a change for every unsolved cell, whatever
\* difference returns
RECURSIVE PassLoop_AlwaysChanged(_, _, _, _, _, _)
PassLoop_AlwaysChanged(sudoku, idx, k, mask, set, changed) ==
  IF k > Len(idx) THEN [sudoku |-> sudoku, changed |-> changed]
  ELSE LET i == idx[k]
           e == sudoku[i]
           d == IF ~is_solved(e) THEN [elem |-> difference(e, mask).elem,
                                       changed |-> TRUE]
                ELSE [elem |-> e, changed |-> FALSE]
           dup == is_solved(d.elem) /\ elem_print(d.elem) \in set
           e2 == IF dup THEN {} ELSE d.elem
           set2 == IF is_solved(d.elem) THEN set \cup {elem_print(d.elem)}
                   ELSE set
       IN PassLoop_AlwaysChanged([sudoku EXCEPT ![i] = e2], idx, k + 1, mask,
                                 set2, changed \/ d.changed)

\* the for loop of one pass: cells idx[k..] visited in order, set being the
\* HashSet of the strings inserted so far
RECURSIVE PassLoop(_, _, _, _, _, _)
PassLoop(sudoku, idx, k, mask, set, changed) ==
  IF k > Len(idx) THEN [sudoku |-> sudoku, changed |-> changed]
  ELSE LET i == idx[k]
           e == sudoku[i]
           d == IF ~is_solved(e) THEN difference(e, mask)
                ELSE [elem |-> e, changed |-> FALSE]
           dup == is_solved(d.elem) /\ elem_print(d.elem) \in set
           e2 == IF dup THEN {} ELSE d.elem
           set2 == IF is_solved(d.elem) THEN set \cup {elem_print(d.elem)}
                   ELSE set
       IN PassLoop([sudoku EXCEPT ![i] = e2], idx, k + 1, mask, set2,
                   changed \/ d.changed)

\* one iteration of the loop of cascade
CascadePass(sudoku, idx) ==
  PassLoop(sudoku, idx, 1, solved_mask(sudoku, idx), {}, FALSE)

\* cascade as a function: the grid it leaves and the boolean it returns
RECURSIVE CascadeLoop(_, _, _)
CascadeLoop(sudoku, idx, changed_ever) ==
  LET p == CascadePass(sudoku, idx)
  IN IF p.changed THEN CascadeLoop(p.sudoku, idx, TRUE)
     ELSE [sudoku |-> p.sudoku, changed |-> changed_ever]

cascade(sudoku, idx) == CascadeLoop(sudoku, idx, FALSE)

\* one sweep of cascade_over_sets: the map and fold over the group list;
\* cascade(s) is run before the fold looks at it, so that a || b never
\* skips a group
RECURSIVE Sweep(_, _, _, _)
Sweep(sudoku, sets, k, acc) ==
  IF k > Len(sets) THEN [sudoku |-> sudoku, changed |-> acc]
  ELSE LET c == cascade(sudoku, sets[k])
       IN IF c.changed THEN Sweep(c.sudoku, sets, k + 1, TRUE)
          ELSE Sweep(c.sudoku, sets, k + 1, acc)

RECURSIVE cascade_over_sets(_, _)
cascade_over_sets(sudoku, sets) ==
  LET s == Sweep(sudoku, sets, 1, FALSE)
  IN IF s.changed THEN cascade_over_sets(s.sudoku, sets) ELSE s.sudoku

\* is_invalid with all in the place of any
is_invalid_All(sudoku) == \A c \in DOMAIN sudoku : elem_is_invalid(sudoku[c])

is_invalid(sudoku) == \E c \in DOMAIN sudoku : elem_is_invalid(sudoku[c])

\* first index n in idx..len-1 whose cell is not solved, NoIndex for None
NoIndex == 0 - 1

\* the scan taking the last unsolved cell (last() for next())
first_unsolved_Last(sudoku, idx) ==
  LET open == {n \in DOMAIN sudoku : n >= idx /\ ~is_solved(sudoku[n])}
  IN IF open = {} THEN NoIndex
     ELSE CHOOSE n \in open : \A m \in open : n >= m

first_unsolved(sudoku, idx) ==
  LET open == {n \in DOMAIN sudoku : n >= idx /\ ~is_solved(sudoku[n])}
  IN IF open = {} THEN NoIndex
     ELSE CHOOSE n \in open : \A m \in open : n <= m

\* ------------------------------------------------------------------------
\* Input grids
\* ------------------------------------------------------------------------
\* the grid literal of main
Sample ==
  << 0, 0, 9, 4, 7, 0, 0, 0, 0,
     8, 0, 6, 2, 0, 0, 7, 0, 0,
     0, 0, 0, 0, 0, 1, 0, 0, 0,
     9, 0, 3, 0, 0, 0, 0, 4, 0,
     7, 1, 0, 0, 0, 0, 0, 5, 6,
     0, 2, 0, 0, 0, 0, 8, 0, 3,
     0, 0, 0, 6, 0, 0, 0, 0, 0,
     0, 0, 7, 0, 0, 4, 9, 0, 8,
     0, 0, 0, 0, 3, 7, 4, 0, 0 >>

\* a completed grid (a completion of Sample)
Solved ==
  << 1, 5, 9, 4, 7, 8, 6, 3, 2,
     8, 4, 6, 2, 5, 3, 7, 1, 9,
     3, 7, 2, 9, 6, 1, 5, 8, 4,
     9, 6, 3, 5, 8, 2, 1, 4, 7,
     7, 1, 8, 3, 4, 9, 2, 5, 6,
     4, 2, 5, 7, 1, 6, 8, 9, 3,
     2, 8, 4, 6, 9, 5, 3, 7, 1,
     5, 3, 7, 1, 2, 4, 9, 6, 8,
     6, 9, 1, 8, 3, 7, 4, 2, 5 >>

\* another completed grid (a completion of Blank)
Lowest ==
  << 1, 2, 3, 4, 5, 6, 7, 8, 9,
     4, 5, 6, 7, 8, 9, 1, 2, 3,
     7, 8, 9, 1, 2, 3, 4, 5, 6,
     2, 1, 4, 3, 6, 5, 8, 9, 7,
     3, 6, 5, 8, 9, 7, 2, 1, 4,
     8, 9, 7, 2, 1, 4, 3, 6, 5,
     5, 3, 1, 6, 4, 2, 9, 7, 8,
     6, 4, 2, 9, 7, 8, 5, 3, 1,
     9, 7, 8, 5, 3, 1, 6, 4, 2 >>

\* the grid without clues
Blank == [k \in 1..Size |-> 0]

\* at most MaxEdits cells of a base grid are overwritten
MaxEdits ==
  4

\* the cells that may be overwritten (r0c6 r0c8 r4c6 r4c7 r4c8 r8c8) and
\* the values written (0 blanks the cell)
EditCells == {6, 8, 42, 43, 44, 80}

EditVals == {0, 5}

EditSets ==
  UNION {[cs -> EditVals] :
           cs \in {c \in SUBSET EditCells : Cardinality(c) <= MaxEdits}}

\* clue lists are indexed from 1 here, cell n is entry n+1
Edit(base, ed) ==
  [k \in 1..Size |-> IF (k - 1) \in DOMAIN ed THEN ed[k - 1] ELSE base[k]]

\* at most MaxSampleEdits of them when the base grid is Sample
MaxSampleEdits ==
  1

Inputs ==
  {Edit(Solved, ed) : ed \in EditSets}
  \cup {Edit(Sample, ed) :
          ed \in {x \in EditSets : Cardinality(DOMAIN x) <= MaxSampleEdits}}
  \cup {Blank, Lowest}

\* sudoku.iter().map(|x| build_elem(x)).collect()
build_grid(clues) == [c \in Cells |-> build_elem(clues[c + 1])]

\* ------------------------------------------------------------------------
\* The search as a machine: stack holds one frame per active call of
\* try_solutions, the last frame being the running call
\* ------------------------------------------------------------------------
VARIABLES
  input,         \* the clue list given to main
  stack,         \* frames [sudoku, idx, next_idx, sols, arg]
  pc,            \* position of the running call
  set_i,         \* position in unique_sets of the group being cascaded
  swept,         \* accumulator of the fold of the current sweep
  changed_ever,  \* changed_ever of the running cascade call
  call,          \* the grid at the start of the running cascade call
  last,          \* the last finished cascade call
  sweep,         \* the grid at the start of the running sweep
  result         \* what try_solutions returned to main

vars ==
  <<input, stack, pc, set_i, swept, changed_ever, call, last, sweep, result>>

Top == stack[Len(stack)]

Frame(sudoku, idx) ==
  [sudoku |-> sudoku, idx |-> idx, next_idx |-> NoIndex, sols |-> <<>>,
   arg |-> sudoku]

NoCall == [set |-> 0]

Init ==
  /\ input \in Inputs
  /\ stack = <<Frame(build_grid(input), 0)>>
  /\ pc = "cascade"
  /\ set_i = 1
  /\ swept = FALSE
  /\ changed_ever = FALSE
  /\ call = build_grid(input)
  /\ last = NoCall
  /\ sweep = build_grid(input)
  /\ result = [kind |-> "running"]

\* the pass without the note in changed_ever
PassChanged_NoNote ==
  /\ pc = "cascade"
  /\ LET p == CascadePass(Top.sudoku, unique_sets[set_i])
     IN /\ p.changed
        /\ stack' = [stack EXCEPT ![Len(stack)].sudoku = p.sudoku]
        /\ changed_ever' = changed_ever
  /\ UNCHANGED <<input, pc, set_i, swept, call, last, sweep, result>>

\* a pass of the loop of cascade that changed a cell: the loop goes on
PassChanged ==
  /\ pc = "cascade"
  /\ LET p == CascadePass(Top.sudoku, unique_sets[set_i])
     IN /\ p.changed
        /\ stack' = [stack EXCEPT ![Len(stack)].sudoku = p.sudoku]
        /\ changed_ever' = TRUE
  /\ UNCHANGED <<input, pc, set_i, swept, call, last, sweep, result>>

\* a pass that changed nothing: cascade returns changed_ever, the fold
\* takes it, and the sweep goes to the next group, starts again, or
\* cascade_over_sets returns
PassStable ==
  /\ pc = "cascade"
  /\ LET p == CascadePass(Top.sudoku, unique_sets[set_i])
         acc == swept \/ changed_ever
     IN /\ ~p.changed
        /\ stack' = [stack EXCEPT ![Len(stack)].sudoku = p.sudoku]
        /\ last' = [set |-> set_i, before |-> call, after |-> p.sudoku,
                    changed |-> changed_ever]
        /\ call' = p.sudoku
        /\ changed_ever' = FALSE
        /\ IF set_i < Len(unique_sets)
           THEN /\ set_i' = set_i + 1
                /\ swept' = acc
                /\ sweep' = sweep
                /\ pc' = pc
           ELSE /\ set_i' = 1
                /\ swept' = FALSE
                /\ sweep' = p.sudoku
                /\ pc' = IF acc THEN "cascade" ELSE "is_invalid"
  /\ UNCHANGED <<input, result>>

\* the running call returns None to its caller
ReturnNone ==
  /\ stack' = SubSeq(stack, 1, Len(stack) - 1)
  /\ IF Len(stack) = 1
     THEN /\ pc' = "done"
          /\ result' = [kind |-> "none"]
     ELSE /\ pc' = "branch"
          /\ result' = result

\* the running call returns Some(grid) to its caller
ReturnSome(grid) ==
  /\ stack' = SubSeq(stack, 1, Len(stack) - 1)
  /\ IF Len(stack) = 1
     THEN /\ pc' = "done"
          /\ result' = [kind |-> "some", sudoku |-> grid]
     ELSE /\ pc' = "unwind"
          /\ result' = [kind |-> "running", sudoku |-> grid]

\* if sudoku.is_invalid() { return None; }
Prune ==
  /\ pc = "is_invalid"
  /\ is_invalid(Top.sudoku)
  /\ ReturnNone
  /\ UNCHANGED <<input, set_i, swept, changed_ever, call, last, sweep>>

\* no unsolved cell from idx on: None => Some(sudoku)
Finished ==
  /\ pc = "is_invalid"
  /\ ~is_invalid(Top.sudoku)
  /\ first_unsolved(Top.sudoku, Top.idx) = NoIndex
  /\ ReturnSome(Top.sudoku)
  /\ UNCHANGED <<input, set_i, swept, changed_ever, call, last, sweep>>

\* Some(next_idx): the iterator over the solutions of that cell is built
Branch ==
  /\ pc = "is_invalid"
  /\ ~is_invalid(Top.sudoku)
  /\ LET n == first_unsolved(Top.sudoku, Top.idx)
     IN /\ n # NoIndex
        /\ stack' = [stack EXCEPT ![Len(stack)].next_idx = n,
                                  ![Len(stack)].sols = solutions(Top.sudoku[n])]
  /\ pc' = "branch"
  /\ UNCHANGED <<input, set_i, swept, changed_ever, call, last, sweep,
                 result>>

\* the closure recursing on the copy without setting the cell
Guess_NoSet ==
  /\ pc = "branch"
  /\ Top.sols # <<>>
  /\ LET test == Top.sudoku
     IN /\ stack' = Append([stack EXCEPT ![Len(stack)].sols = Tail(Top.sols)],
                           Frame(test, Top.next_idx))
        /\ call' = test
        /\ sweep' = test
  /\ pc' = "cascade"
  /\ set_i' = 1
  /\ swept' = FALSE
  /\ changed_ever' = FALSE
  /\ UNCHANGED <<input, last, result>>

\* the closure setting the cell in the grid of the caller before copying it
Guess_NoCopy ==
  /\ pc = "branch"
  /\ Top.sols # <<>>
  /\ LET test == [Top.sudoku EXCEPT ![Top.next_idx] = Head(Top.sols)]
     IN /\ stack' = Append([stack EXCEPT ![Len(stack)].sols = Tail(Top.sols),
                                         ![Len(stack)].sudoku = test],
                           Frame(test, Top.next_idx))
        /\ call' = test
        /\ sweep' = test
  /\ pc' = "cascade"
  /\ set_i' = 1
  /\ swept' = FALSE
  /\ changed_ever' = FALSE
  /\ UNCHANGED <<input, last, result>>

\* the closure of filter_map on the next solution: copy, set, recurse
Guess ==
  /\ pc = "branch"
  /\ Top.sols # <<>>
  /\ LET test == [Top.sudoku EXCEPT ![Top.next_idx] = Head(Top.sols)]
     IN /\ stack' = Append([stack EXCEPT ![Len(stack)].sols = Tail(Top.sols)],
                           Frame(test, Top.next_idx))
        /\ call' = test
        /\ sweep' = test
  /\ pc' = "cascade"
  /\ set_i' = 1
  /\ swept' = FALSE
  /\ changed_ever' = FALSE
  /\ UNCHANGED <<input, last, result>>

\* the iterator is exhausted: next() is None
Exhausted ==
  /\ pc = "branch"
  /\ Top.sols = <<>>
  /\ ReturnNone
  /\ UNCHANGED <<input, set_i, swept, changed_ever, call, last, sweep>>

\* a recursive call returned Some: next() yields it and the call returns it
Unwind ==
  /\ pc = "unwind"
  /\ ReturnSome(result.sudoku)
  /\ UNCHANGED <<input, set_i, swept, changed_ever, call, last, sweep>>

Next ==
  \/ PassChanged
  \/ PassStable
  \/ Prune
  \/ Finished
  \/ Branch
  \/ Guess
  \/ Exhausted
  \/ Unwind

Spec == Init /\ [][Next]_vars

\* ------------------------------------------------------------------------
\* Sudoku rules stated on clue lists, by row and column arithmetic
\* ------------------------------------------------------------------------
Digits == 1..Width

RowOf(n) == n \div 9
ColOf(n) == n % 9
BoxOf(n) == 3 * (RowOf(n) \div 3) + (ColOf(n) \div 3)

Peers(n) ==
  {m \in Cells : m # n /\ (RowOf(m) = RowOf(n) \/ ColOf(m) = ColOf(n)
                           \/ BoxOf(m) = BoxOf(n))}

PeerOf == [n \in Cells |-> Peers(n)]

\* a list of 81 digits in which no two cells of a row, column or box agree
ValidDigits(g) ==
  /\ \A n \in Cells : g[n + 1] \in Digits
  /\ \A n \in Cells : \A m \in PeerOf[n] : g[m + 1] # g[n + 1]

\* g completes clues: valid, and every clue keeps its digit
IsCompletion(g, clues) ==
  /\ ValidDigits(g)
  /\ \A n \in Cells : clues[n + 1] # 0 => g[n + 1] = clues[n + 1]

\* two clues with the same digit in one row, column or box
DupClues(clues) ==
  \E n \in Cells : clues[n + 1] # 0 /\ \E m \in PeerOf[n] : clues[m + 1] = clues[n + 1]

\* the digits a blank may take: those of no peer
Allowed(g, n) == Digits \ {g[m + 1] : m \in PeerOf[n]}

\* all completions of a clue list, by exhaustive filling of the blank with
\* the fewest allowed digits
RECURSIVE Fill(_, _)
Fill(g, clues) ==
  LET blanks == {n \in Cells : g[n + 1] = 0}
  IN IF blanks = {} THEN (IF IsCompletion(g, clues) THEN {g} ELSE {})
     ELSE LET al == [n \in blanks |-> Allowed(g, n)]
              n == CHOOSE x \in blanks :
                     \A y \in blanks : Cardinality(al[x]) <= Cardinality(al[y])
          IN UNION {Fill([g EXCEPT ![n + 1] = d], clues) : d \in al[n]}

Completions(clues) == Fill(clues, clues)

\* the digit list of a grid whose cells are all solved
DigitsOf(sudoku) ==
  [k \in 1..Size |-> IF is_solved(sudoku[k - 1])
                     THEN elem_print(sudoku[k - 1])[1] ELSE 0]

\* ------------------------------------------------------------------------
\* Claims
\* ------------------------------------------------------------------------
\* the group holds every digit exactly once
GroupComplete(sudoku, idx) ==
  \A b \in Bits : Cardinality({k \in 1..Len(idx) : sudoku[idx[k]] = {b}}) = 1

\* C1: whenever try_solutions called with start index 0 returns a grid,
\* every cell of it is solved and each of the 27 groups holds each digit
\* 1..9 exactly once.
C1_ReturnedGridSolved ==
  result.kind = "some" =>
    /\ \A c \in Cells : is_solved(result.sudoku[c])
    /\ Len(unique_sets) = 27
    /\ \A k \in 1..Len(unique_sets) : GroupComplete(result.sudoku, unique_sets[k])

C1_Witness ==
  /\ result.kind = "some"
  /\ pc = "done"
  /\ Cardinality({n \in Cells : input[n + 1] = 0}) > 50

\* C2: try_solutions called with start index 0 returns None exactly when
\* the clues admit no valid completion; when exactly one completion exists
\* that grid is returned.  The completions are enumerated for every input
\* with a clue; for the grid without clues Solved is a known completion.
C2_NoneIffNoCompletion ==
  pc = "done" =>
    /\ IsCompletion(Solved, input) => result.kind = "some"
    /\ input # Blank =>
         LET cs == Completions(input)
         IN /\ result.kind = "none" <=> cs = {}
            /\ Cardinality(cs) = 1 =>
                 result.kind = "some" /\ DigitsOf(result.sudoku) \in cs

\* no completion, and no two equal clues in a group either
C2_Witness ==
  /\ pc = "done"
  /\ result.kind = "none"
  /\ ~DupClues(input)
  /\ \E n \in Cells : input[n + 1] = 0

\* exactly one completion, found after a guess was taken back
C2_WitnessUnique ==
  /\ pc = "done"
  /\ result.kind = "some"
  /\ input = Sample

\* the clue cells of a grid hold their clue or nothing
KeepsClues(sudoku, clues) ==
  \A n \in Cells : clues[n + 1] # 0 => sudoku[n] \in {{clues[n + 1] - 1}, {}}

\* from grid a to grid b no solved cell takes another digit
SolvedKept(a, b) ==
  a = b \/ \A c \in Cells : is_solved(a[c]) => b[c] \in {a[c], {}}

\* C3: in any grid returned by try_solutions the cell of every non-blank
\* clue d is solved with digit d, and no step of propagation or search
\* changes a solved cell to a different digit: in the grid of every call it
\* stays or becomes empty, and a guess copies it into the grid of the child.
C3_CluePreservation ==
  /\ [](result.kind = "some" =>
          \A n \in Cells : input[n + 1] # 0 =>
             elem_print(result.sudoku[n]) = <<input[n + 1]>>)
  /\ [](\A k \in 1..Len(stack) : KeepsClues(stack[k].sudoku, input))
  /\ [][/\ \A k \in 1..Len(stack) :
             k <= Len(stack') => SolvedKept(stack[k].sudoku, stack'[k].sudoku)
        /\ Len(stack') > Len(stack) =>
             SolvedKept(Top.sudoku, stack'[Len(stack')].sudoku)
        /\ (Len(stack') < Len(stack) /\ pc' \in {"unwind", "done"}
              /\ result'.kind # "none") =>
             (result'.sudoku = Top.sudoku \/ result'.sudoku = result.sudoku)]_vars

\* a grid was returned for an input with clues and blanks
C3_Witness ==
  /\ result.kind = "some"
  /\ pc = "done"
  /\ \E n \in Cells : input[n + 1] # 0
  /\ \E n \in Cells : input[n + 1] = 0

\* C4: when some row, column or box of the input holds two clues with the
\* same digit, try_solutions returns None.
C4_DuplicateCluesNone ==
  (pc = "done" /\ DupClues(input)) => result.kind = "none"

C4_Witness ==
  /\ pc = "done"
  /\ DupClues(input)
  /\ result.kind = "none"

\* the cells of a group
CellsOf(idx) == {idx[k] : k \in 1..Len(idx)}

\* the positions of the group whose cell is solved with bit b
Holders(sudoku, idx, b) == {k \in 1..Len(idx) : sudoku[idx[k]] = {b}}

\* the bits held by two or more solved cells of the group
DupBits(sudoku, idx) ==
  {b \in Bits : Cardinality(Holders(sudoku, idx, b)) >= 2}

LastIdx == unique_sets[last.set]

\* C5 as stated: when cascade is run on a group in which two or more cells
\* are solved with the same digit, all the cells holding that digit are
\* invalid when cascade returns.
C5_AllDuplicatesInvalid ==
  last.set # 0 =>
    \A b \in DupBits(last.before, LastIdx) :
      \A k \in Holders(last.before, LastIdx, b) : last.after[LastIdx[k]] = {}

\* C5 amended: of the cells of the group holding a duplicated digit, the
\* first in group order is still solved with that digit when cascade
\* returns and all the later ones are invalid.
C5_LaterDuplicatesInvalid ==
  last.set # 0 =>
    \A b \in DupBits(last.before, LastIdx) :
      LET ks == Holders(last.before, LastIdx, b)
          first == CHOOSE k \in ks : \A j \in ks : k <= j
      IN /\ last.after[LastIdx[first]] = {b}
         /\ \A k \in ks \ {first} : last.after[LastIdx[k]] = {}

C5_Witness ==
  /\ last.set # 0
  /\ DupBits(last.before, LastIdx) # {}

\* no two solved cells of a group hold the same digit
NoDupSolved(sudoku) ==
  \A g \in 1..Len(unique_sets) : DupBits(sudoku, unique_sets[g]) = {}

\* C6: when cascade_over_sets returns, some cell of the grid is invalid or
\* in every group every two distinct solved cells hold different digits.
C6_PropagationSound ==
  pc = "is_invalid" => (is_invalid(Top.sudoku) \/ NoDupSolved(Top.sudoku))

\* propagation removed candidates and left no invalid cell
C6_Witness ==
  /\ pc = "is_invalid"
  /\ ~is_invalid(Top.sudoku)
  /\ Top.sudoku # Top.arg
  /\ \E c \in Cells : is_solved(Top.sudoku[c]) /\ ~is_solved(Top.arg[c])

\* b is a below: no bit added; and equal to a outside the group
Shrinks(a, b, idx) ==
  \A c \in Cells : b[c] \subseteq a[c] /\ (c \notin CellsOf(idx) => b[c] = a[c])

\* C7: after every pass of cascade, and so when cascade and
\* cascade_over_sets return, every cell's candidate set is a subset of
\* what it was before, and cascade leaves the cells outside its group
\* unchanged.
C7_Monotone ==
  /\ [][(pc = "cascade" /\ Len(stack') = Len(stack)) =>
          Shrinks(Top.sudoku, stack'[Len(stack')].sudoku, unique_sets[set_i])]_vars
  /\ [](last.set # 0 => Shrinks(last.before, last.after, LastIdx))
  /\ [](pc = "is_invalid" => \A c \in Cells : Top.sudoku[c] \subseteq Top.arg[c])

\* a cascade call that removed candidates has returned
C7_Witness ==
  /\ last.set # 0
  /\ last.changed
  /\ \E c \in CellsOf(LastIdx) :
       last.after[c] # last.before[c] /\ last.after[c] # {}

\* C8 as stated: cascade returns true exactly when the grid after the call
\* differs from the grid before.
C8_TrueIffGridChanged ==
  last.set # 0 => (last.changed <=> last.after # last.before)

\* C8 amended: cascade returns true exactly when some cell that was not
\* solved at the call lost a candidate; when it returns false the grid may
\* still differ, but only in cells that were solved at the call and are
\* invalid at the return.
C8_TrueIffRestricted ==
  last.set # 0 =>
    /\ last.changed <=>
         \E c \in CellsOf(LastIdx) :
           ~is_solved(last.before[c]) /\ last.after[c] # last.before[c]
    /\ ~last.changed =>
         \A c \in Cells : last.after[c] # last.before[c] =>
           (is_solved(last.before[c]) /\ last.after[c] = {})

\* a call that cleared a duplicate and returned false
C8_Witness ==
  /\ last.set # 0
  /\ ~last.changed
  /\ last.after # last.before

\* ------------------------------------------------------------------------
\* Other orders of the group list
\* ------------------------------------------------------------------------
Reverse(seq) == [k \in 1..Len(seq) |-> seq[Len(seq) + 1 - k]]

\* seq started r places later
Rotate(seq, r) == [k \in 1..Len(seq) |-> seq[((k - 1 + r) % Len(seq)) + 1]]

\* the number of rotations of the group list that are tried
MaxOrders ==
  3

Orders ==
  {Rotate(unique_sets, (7 * r) % Len(unique_sets)) : r \in 1..MaxOrders}
  \cup {Reverse(unique_sets)}

\* C9 as stated: the grid produced by cascade_over_sets is the same for
\* every order in which the groups are visited.
C9_SameGridEveryOrder ==
  pc = "is_invalid" =>
    \A ord \in Orders : cascade_over_sets(Top.arg, ord) = Top.sudoku

\* C9 amended: for every order of the groups cascade_over_sets produces a
\* grid with an invalid cell, or for every order it produces none; when it
\* produces none, the grid is the same, cell by cell, for every order.
C9_SameValidGridEveryOrder ==
  pc = "is_invalid" =>
    \A ord \in Orders :
      LET g == cascade_over_sets(Top.arg, ord)
      IN /\ is_invalid(g) <=> is_invalid(Top.sudoku)
         /\ ~is_invalid(Top.sudoku) => g = Top.sudoku

\* propagation removed candidates and left no invalid cell
C9_Witness ==
  /\ pc = "is_invalid"
  /\ ~is_invalid(Top.sudoku)
  /\ Top.sudoku # Top.arg
  /\ Len(stack) > 1

\* C10: when cascade_over_sets returns, cascade on any single group and
\* cascade_over_sets on the whole list leave every cell unchanged, also
\* when the last sweep cleared a duplicate without reporting a change.
C10_FixedPoint ==
  pc = "is_invalid" =>
    /\ \A g \in 1..Len(unique_sets) :
         cascade(Top.sudoku, unique_sets[g]).sudoku = Top.sudoku
    /\ cascade_over_sets(Top.sudoku, unique_sets) = Top.sudoku

\* the only sweep cleared a solved cell and no cascade reported a change
C10_Witness ==
  /\ pc = "is_invalid"
  /\ \E c \in Cells : is_solved(Top.arg[c]) /\ Top.sudoku[c] = {}
  /\ \A c \in Cells : ~is_solved(Top.arg[c]) => Top.sudoku[c] = Top.arg[c]

\* C11: called with start index 0 on a grid in which every cell is solved
\* and every group holds each digit once, try_solutions returns that same
\* grid, cell for cell, and no guess is made (no second frame, no branch).
C11_SolvedInputReturned ==
  ValidDigits(input) =>
    /\ Len(stack) <= 1
    /\ pc # "branch"
    /\ pc = "done" =>
         /\ result.kind = "some"
         /\ DigitsOf(result.sudoku) = input
         /\ result.sudoku = build_grid(input)

C11_Witness ==
  /\ ValidDigits(input)
  /\ pc = "done"
  /\ result.kind = "some"

\* C12: in every call of try_solutions, once propagation has run and the
\* grid is not invalid, every cell below the start index is solved, so the
\* scan from the start index finds the same cell as the scan from 0.
C12_StartIndexSafe ==
  (pc = "is_invalid" /\ ~is_invalid(Top.sudoku)) =>
    /\ \A n \in Cells : n < Top.idx => is_solved(Top.sudoku[n])
    /\ first_unsolved(Top.sudoku, Top.idx) = first_unsolved(Top.sudoku, 0)

\* a nested call with a start index above 0 that still has unsolved cells
C12_Witness ==
  /\ pc = "is_invalid"
  /\ ~is_invalid(Top.sudoku)
  /\ Top.idx > 0
  /\ first_unsolved(Top.sudoku, 0) # NoIndex

\* the number of candidate bits of a grid
RECURSIVE BitsFrom(_, _)
BitsFrom(sudoku, n) ==
  IF n >= Size THEN 0 ELSE Cardinality(sudoku[n]) + BitsFrom(sudoku, n + 1)

BitCount(sudoku) == BitsFrom(sudoku, 0)

\* C13: cascade and cascade_over_sets terminate on every grid, grids with
\* invalid cells or duplicate solved values included: every pass that does
\* not end the loop of cascade, and every sweep that does not end the loop
\* of cascade_over_sets, removes at least one candidate bit, so that the
\* number of candidate bits, which is never negative, bounds the number of
\* passes and of sweeps.
C13_PropagationTerminates ==
  /\ [][(pc = "cascade" /\ pc' = "cascade" /\ Len(stack') = Len(stack)
           /\ last' = last) =>
          BitCount(stack'[Len(stack')].sudoku) < BitCount(Top.sudoku)]_vars
  /\ [][(pc = "cascade" /\ pc' = "cascade" /\ Len(stack') = Len(stack)
           /\ set_i = Len(unique_sets) /\ set_i' = 1) =>
          BitCount(stack'[Len(stack')].sudoku) < BitCount(sweep)]_vars

\* propagation of a grid with duplicate solved values has returned
C13_Witness ==
  /\ pc = "is_invalid"
  /\ ~NoDupSolved(Top.arg)
  /\ Top.sudoku # Top.arg

\* C14: along any chain of nested calls the cell chosen for guessing has a
\* strictly greater index in the child than in the parent, the child
\* starting its scan at the cell of the parent; so there are at most 81
\* nested guesses, and every guess consumes a solution of its parent.
C14_BoundedDepth ==
  /\ [](Len(stack) <= Size + 1)
  /\ [](\A k \in 1..(Len(stack) - 1) :
          /\ stack[k].next_idx \in Cells
          /\ stack[k + 1].idx = stack[k].next_idx
          /\ stack[k + 1].next_idx # NoIndex =>
               stack[k + 1].next_idx > stack[k].next_idx)
  /\ [][Len(stack') > Len(stack) =>
          /\ Len(stack') = Len(stack) + 1
          /\ Len(stack'[Len(stack)].sols) < Len(Top.sols)]_vars

\* three nested calls, the innermost having chosen its cell
C14_Witness ==
  /\ Len(stack) >= 3
  /\ Top.next_idx # NoIndex

\* the bit of a single-bit cell
BitOf(e) == CHOOSE b \in e : TRUE

\* the bits of the solutions still in the iterator
Untried(f) == UNION {f.sols[i] : i \in 1..Len(f.sols)}

\* the cell a branching frame guesses
CellOf(f) == f.sudoku[f.next_idx]

\* the iterator holds single bits of the cell in increasing order, and
\* with a bit every greater bit of the cell
IteratorInOrder(f) ==
  /\ \A i \in 1..Len(f.sols) : is_solved(f.sols[i]) /\ f.sols[i] \subseteq CellOf(f)
  /\ \A i, j \in 1..Len(f.sols) : i < j => BitOf(f.sols[i]) < BitOf(f.sols[j])
  /\ \A b \in CellOf(f) : \A u \in Untried(f) : b > u => b \in Untried(f)

\* C15: a branching node tries the candidate digits of its cell in
\* strictly increasing order; it returns the grid of the first child that
\* returns one and starts no later child; a child returning None makes it
\* try the next digit; it returns None only when every candidate has
\* failed.
C15_BranchOrder ==
  /\ [](\A k \in 1..Len(stack) : stack[k].next_idx # NoIndex =>
          /\ IteratorInOrder(stack[k])
          /\ k < Len(stack) =>
               /\ is_solved(stack[k + 1].arg[stack[k].next_idx])
               /\ Untried(stack[k]) =
                    {b \in CellOf(stack[k]) :
                       b > BitOf(stack[k + 1].arg[stack[k].next_idx])})
  /\ [][(pc = "is_invalid" /\ pc' = "branch" /\ Len(stack') = Len(stack)) =>
          Untried(stack'[Len(stack')]) = CellOf(stack'[Len(stack')])]_vars
  /\ [][Len(stack') > Len(stack) =>
          /\ pc = "branch"
          /\ \A b \in CellOf(Top) \cap Untried(Top) :
               BitOf(stack'[Len(stack')].arg[Top.next_idx]) <= b
          /\ stack'[Len(stack')].arg[Top.next_idx] \subseteq Untried(Top)]_vars
  /\ [][pc = "unwind" =>
          /\ Len(stack') = Len(stack) - 1
          /\ result'.sudoku = result.sudoku
          /\ pc' \in {"unwind", "done"}]_vars
  /\ [][(pc = "branch" /\ Top.sols # <<>>) => Len(stack') = Len(stack) + 1]_vars
  /\ [][(pc = "branch" /\ Len(stack') < Len(stack)) =>
          /\ Untried(Top) = {}
          /\ (pc' = "branch" \/ result'.kind = "none")]_vars

\* a child has failed and a greater digit is still to be tried
C15_Witness ==
  /\ pc = "branch"
  /\ Top.sols # <<>>
  /\ Len(Top.sols) < Cardinality(CellOf(Top))

\* some cell has no candidate
HasEmpty(sudoku) == \E c \in Cells : sudoku[c] = {}

\* C16: a call whose grid has a cell without candidates after
\* cascade_over_sets returns None without a recursive call; so a guess is
\* only written into a grid without invalid cell, into a cell with at
\* least two candidates, and with a digit among those candidates.
C16_Pruning ==
  /\ [][(pc = "is_invalid" /\ HasEmpty(Top.sudoku)) =>
          /\ Len(stack') = Len(stack) - 1
          /\ (pc' = "branch" /\ result' = result)
               \/ (pc' = "done" /\ result'.kind = "none")]_vars
  /\ [][Len(stack') > Len(stack) =>
          /\ ~HasEmpty(Top.sudoku)
          /\ Cardinality(CellOf(Top)) >= 2
          /\ is_solved(stack'[Len(stack')].arg[Top.next_idx])
          /\ stack'[Len(stack')].arg[Top.next_idx] \subseteq CellOf(Top)]_vars

\* a nested call about to be pruned
C16_Witness ==
  /\ pc = "is_invalid"
  /\ HasEmpty(Top.sudoku)
  /\ Len(stack) > 1

\* C17: every child call starts from the grid its parent had after
\* propagation, with only the chosen cell replaced by one guessed digit;
\* the grid of a call changes only while that call itself propagates, so
\* neither the propagation nor the failure of a child changes the grid of
\* its parent or the grid a later sibling starts from.  (The group list is
\* the constant unique_sets in every step.)
C17_BranchIsolation ==
  /\ [](\A k \in 1..(Len(stack) - 1) :
          LET n == stack[k].next_idx
          IN /\ is_solved(stack[k + 1].arg[n])
             /\ stack[k + 1].arg =
                  [stack[k].sudoku EXCEPT ![n] = stack[k + 1].arg[n]])
  /\ [][\A k \in 1..Len(stack) : k <= Len(stack') =>
          /\ stack'[k].arg = stack[k].arg
          /\ (k < Len(stack) \/ pc # "cascade") =>
               stack'[k].sudoku = stack[k].sudoku]_vars
  /\ [][Len(stack') > Len(stack) =>
          Top.sudoku = cascade_over_sets(Top.arg, unique_sets)]_vars

\* a later sibling is propagating after an earlier one failed
C17_Witness ==
  /\ Len(stack) >= 2
  /\ pc = "cascade"
  /\ Top.sudoku # Top.arg
  /\ LET p == stack[Len(stack) - 1]
     IN \E b \in CellOf(p) : b < BitOf(Top.arg[p.next_idx])

\* C18: when cascade on a group returns, the solved cells of the group
\* hold pairwise distinct digits and no unsolved cell of the group has a
\* digit held by a solved cell of the group among its candidates.
C18_LocalFixedPoint ==
  last.set # 0 =>
    /\ DupBits(last.after, LastIdx) = {}
    /\ \A c \in CellsOf(LastIdx) : ~is_solved(last.after[c]) =>
         \A b \in last.after[c] : Holders(last.after, LastIdx, b) = {}

\* a call that removed candidates and left an unsolved cell in the group
C18_Witness ==
  /\ last.set # 0
  /\ last.changed
  /\ \E c \in CellsOf(LastIdx) : Cardinality(last.after[c]) >= 2
  /\ \E c \in CellsOf(LastIdx) : is_solved(last.after[c])

\* a comes before b, or is b, in the order of the row-major digit lists
LexLeq(a, b) ==
  \/ a = b
  \/ LET diff == {k \in 1..Size : a[k] # b[k]}
         d == CHOOSE k \in diff : \A j \in diff : k <= j
     IN a[d] < b[d]

\* C19: when the input admits several completions, the grid returned by
\* try_solutions with start index 0 is the completion whose row-major list
\* of 81 digits is the lexicographically smallest.  The completions are
\* enumerated for every input with a clue; for the grid without clues the
\* result is compared with the two completed grids at hand.
C19_SmallestCompletion ==
  pc = "done" =>
    /\ \A g \in {Solved, Lowest} : IsCompletion(g, input) =>
         (result.kind = "some" /\ LexLeq(DigitsOf(result.sudoku), g))
    /\ input # Blank =>
         LET cs == Completions(input)
         IN cs # {} =>
              /\ result.kind = "some"
              /\ DigitsOf(result.sudoku) \in cs
              /\ \A g \in cs : LexLeq(DigitsOf(result.sudoku), g)

\* a grid was returned for an input with a clue and several completions
C19_Witness ==
  /\ pc = "done"
  /\ result.kind = "some"
  /\ input # Blank
  /\ Cardinality(Completions(input)) > 1

\* the cells of row r, of column c and of box b, with index = row*9 + column
RowCells(r) == {n \in Cells : RowOf(n) = r}
ColCells(c) == {n \in Cells : ColOf(n) = c}
BoxCells(b) == {n \in Cells : BoxOf(n) = b}

\* the positions in the list of the groups whose cells are the set s
GroupsOn(s) == {g \in 1..Len(unique_sets) : CellsOf(unique_sets[g]) = s}

\* C20: the list of groups built in main has exactly 27 groups of 9
\* distinct indices in 0..80: each of the 9 rows, 9 columns and 9 boxes
\* once; no two groups are identical, and every index belongs to exactly 3
\* groups, one of each kind.
GroupGeometry ==
  /\ Len(unique_sets) = 27
  /\ \A g \in 1..Len(unique_sets) :
       /\ Len(unique_sets[g]) = 9
       /\ Cardinality(CellsOf(unique_sets[g])) = 9
       /\ CellsOf(unique_sets[g]) \subseteq 0..80
  /\ \A k \in 0..8 :
       /\ Cardinality(GroupsOn(RowCells(k))) = 1
       /\ Cardinality(GroupsOn(ColCells(k))) = 1
       /\ Cardinality(GroupsOn(BoxCells(k))) = 1
  /\ \A g, h \in 1..Len(unique_sets) :
       g # h => CellsOf(unique_sets[g]) # CellsOf(unique_sets[h])
  /\ \A n \in 0..80 :
       /\ Cardinality({g \in 1..Len(unique_sets) : n \in CellsOf(unique_sets[g])}) = 3
       /\ \E g \in GroupsOn(RowCells(RowOf(n))) : n \in CellsOf(unique_sets[g])
       /\ \E g \in GroupsOn(ColCells(ColOf(n))) : n \in CellsOf(unique_sets[g])
       /\ \E g \in GroupsOn(BoxCells(BoxOf(n))) : n \in CellsOf(unique_sets[g])

\* C20, in every state: the list has that shape, and the group being
\* cascaded is one of its 27.
C20_GroupGeometry ==
  /\ GroupGeometry
  /\ set_i \in 1..Len(unique_sets)

\* the last group of the list is being cascaded
C20_Witness ==
  /\ pc = "cascade"
  /\ set_i = Len(unique_sets)
  /\ set_i = 27

====
